---- MODULE Spec2Model ----
(***************************************************************************)
(* The Arcade expression scripts of the Corridor Profile dashboard.  Each  *)
(* script is one stateless evaluation: the host supplies $dataSources, the *)
(* script returns one record whose value is displayText.                   *)
(*                                                                         *)
(* Numbers.  A field value is Null (<<>>) or <<n>> with n an integer.      *)
(* Total_Miles and four_D_plus_miles are counted in units of 0.005 mile,   *)
(* so the tolerance 0.01 of the fingerprint match is 2 units and every     *)
(* comparison and sum of the scripts is exact integer arithmetic.  A text  *)
(* value is Null or <<s>> with s a non-empty string (IsEmpty treats null   *)
(* and "" alike).  Quotients (weighted averages) are kept as a pair        *)
(* [n, d] with d > 0.                                                      *)
(***************************************************************************)
EXTENDS Integers, Sequences, FiniteSets, TLC

VARIABLES
    pc,           \* "idle" (nothing evaluated yet) or "done"
    script,       \* the script the widget evaluated
    dataSources,  \* $dataSources: data source id -> data source
    raised,       \* the evaluation stopped with an execution error
    displayText,  \* the value of the returned record
    locals        \* the script's local variables when it returned

vars == <<pc, script, dataSources, raised, displayText, locals>>

\* ------------------------------------------------------------------ bounds

\* Features the host supplies to one evaluation: in the selection, in the full
\* layer, and in both together.
MaxSel == 2

MaxRef == 2

MaxFeatures == 3

\* ------------------------------------------------------------- Arcade values

Null == <<>>

IsEmpty(v) == v = Null

\* Number(v), and the operand of an arithmetic operator: null counts as 0.
Number(v) == IF v = Null THEN 0 ELSE v[1]

Abs(n) == IF n < 0 THEN -n ELSE n

\* Round(n / d, 0): n / d rounded to the nearest integer, halves away from zero (d > 0).
RoundDiv(n, d) ==
    LET a == IF n < 0 THEN -n ELSE n
        q == a \div d
        r == a % d
        up == IF r >= d - r THEN q + 1 ELSE q
    IN  IF n < 0 THEN -up ELSE up

\* HasKey(feat, key): the field is in the schema of the feature's view.
HasKey(feat, key) == key \in DOMAIN feat

\* ------------------------------------------------------------------- Text()

Pad3(n) ==
    IF n < 10 THEN "00" \o ToString(n)
    ELSE IF n < 100 THEN "0" \o ToString(n)
    ELSE ToString(n)

RECURSIVE Grouped(_)
Grouped(n) ==
    IF n < 1000 THEN ToString(n)
    ELSE Grouped(n \div 1000) \o "," \o Pad3(n % 1000)

\* Text(n, "#,###") of an integer n: digits grouped by thousands.
TextGrouped(n) == IF n < 0 THEN "-" \o Grouped(-n) ELSE Grouped(n)

\* Text(m, "#,###.0") of a length m given in units of 0.005 mile: one decimal.
TextMiles(m) ==
    LET tenths == RoundDiv(m, 20)
    IN  TextGrouped(tenths \div 10) \o "." \o ToString(tenths % 10)

\* A number given in tenths, printed with at most one decimal and no grouping:
\* the trailing ".0" is dropped.
TextTenths(t) ==
    LET a == Abs(t)
        body == IF a % 10 = 0 THEN ToString(a \div 10)
                ELSE ToString(a \div 10) \o "." \o ToString(a % 10)
    IN  IF t < 0 THEN "-" \o body ELSE body

\* --------------------------------------------------------------- data sources

selectionID == "dataSource_56-19abd51320a-layer-1-19abd51336a-layer-3-selection"

\* Replace(selectionID, "-selection", "")
fullLayerID == "dataSource_56-19abd51320a-layer-1-19abd51336a-layer-3"

\* The fingerprint tolerance 0.01, in units of 0.005 mile.
Tolerance == 2

ErrorNoAccess == "Error: The widget does not have access to the data."

\* Entry without the HasKey test: $dataSources[fullLayerID] is read whether
\* or not the host supplies the full layer.
Entry_NoHasKey(ds, strictKeys) ==
    IF selectionID \notin DOMAIN ds \/ fullLayerID \notin DOMAIN ds THEN "raise"
    ELSE "logic"

\* What every script does before its LOGIC section: it reads
\* $dataSources[selectionID] and tests HasKey($dataSources, fullLayerID).
\* strictKeys is the host's answer to reading a key the dictionary lacks: an
\* execution error (TRUE) or null (FALSE).  "raise": the evaluation stops;
\* "error": the else branch of the HasKey test; "logic": the LOGIC section runs.
Entry(ds, strictKeys) ==
    IF selectionID \notin DOMAIN ds /\ strictKeys THEN "raise"
    ELSE IF fullLayerID \notin DOMAIN ds THEN "error"
    ELSE IF selectionID \notin DOMAIN ds THEN "raise"
    ELSE "logic"

\* The locals every script shares: the value CASE A resolved, whether the
\* fallback branch ran, and the layer feature its loop stopped at (0: none).
NoLocals == [value |-> Null, fallback |-> FALSE, matched |-> 0]

Resolved(value, fallback, matched) ==
    [raised |-> FALSE, value |-> value, fallback |-> fallback, matched |-> matched]

ResolveRaised == [raised |-> TRUE, value |-> Null, fallback |-> FALSE, matched |-> 0]

LocalsOf(r) == [value |-> r.value, fallback |-> r.fallback, matched |-> r.matched]

Raised == [raised |-> TRUE, displayText |-> "", locals |-> NoLocals]

Returned(text, loc) == [raised |-> FALSE, displayText |-> text, locals |-> loc]

\* ------------------------------------------------- fingerprint fallback (CASE A)

\* for (var f in allFeats) { if (Abs(f["Total_Miles"] - targetMiles) < 0.01) ... }
\* The index of the feature the loop breaks at, 0 when it runs to the end.
RECURSIVE ScanMiles(_, _, _)
ScanMiles(allFeats, targetMiles, i) ==
    IF i > Len(allFeats) THEN 0
    ELSE IF Abs(Number(allFeats[i]["Total_Miles"]) - Number(targetMiles)) < Tolerance
         THEN i
         ELSE ScanMiles(allFeats, targetMiles, i + 1)

\* ResolveValue with the fallback loop outside the IsEmpty(val) test: a layer
\* feature of the same Total_Miles overwrites the feature's own value.
ResolveValue_AlwaysScan(feature, allFeats, fieldName) ==
    IF ~HasKey(feature, fieldName) \/ ~HasKey(feature, "Total_Miles") THEN ResolveRaised
    ELSE LET m == IF IsEmpty(feature["Total_Miles"]) THEN 0
                  ELSE ScanMiles(allFeats, feature["Total_Miles"], 1)
         IN  IF m = 0 THEN Resolved(feature[fieldName], TRUE, 0)
             ELSE Resolved(allFeats[m][fieldName], TRUE, m)

\* ResolveValue without the IsEmpty(targetMiles) test: the loop runs with an
\* empty targetMiles, which the subtraction takes for 0.
ResolveValue_NoMilesTest(feature, allFeats, fieldName) ==
    IF ~HasKey(feature, fieldName) THEN ResolveRaised
    ELSE IF ~IsEmpty(feature[fieldName]) THEN Resolved(feature[fieldName], FALSE, 0)
    ELSE IF ~HasKey(feature, "Total_Miles") THEN ResolveRaised
    ELSE LET m == ScanMiles(allFeats, feature["Total_Miles"], 1)
         IN  IF m = 0 THEN Resolved(Null, TRUE, 0)
             ELSE Resolved(allFeats[m][fieldName], TRUE, m)

\* CASE A of the single-field scripts: feature[fieldName], else the value of
\* the first layer feature with the same Total_Miles.  Fields are read with
\* feature[...], which stops the evaluation when the view lacks the field.
ResolveValue(feature, allFeats, fieldName) ==
    IF ~HasKey(feature, fieldName) THEN ResolveRaised
    ELSE IF ~IsEmpty(feature[fieldName]) THEN Resolved(feature[fieldName], FALSE, 0)
    ELSE IF ~HasKey(feature, "Total_Miles") THEN ResolveRaised
    ELSE IF IsEmpty(feature["Total_Miles"]) THEN Resolved(Null, TRUE, 0)
    ELSE LET m == ScanMiles(allFeats, feature["Total_Miles"], 1)
         IN  IF m = 0 THEN Resolved(Null, TRUE, 0)
             ELSE Resolved(allFeats[m][fieldName], TRUE, m)

\* Count in the place of Sum.
Sum_Count(allFeatures, fieldName) == Len(allFeatures)

\* Sum(allFeatures, fieldName): empty values add nothing.
RECURSIVE Sum(_, _)
Sum(allFeatures, fieldName) ==
    IF Len(allFeatures) = 0 THEN 0
    ELSE Number(Head(allFeatures)[fieldName]) + Sum(Tail(allFeatures), fieldName)

\* The last feature in the place of the first.
First_Last(features) == features[Len(features)]

\* First(selectedFeatures)
First(features) == Head(features)

\* ------------------------------------------------- Number_Of_Fatal_Crashes.js

Number_Of_Fatal_Crashes(ds, strictKeys) ==
    LET entry == Entry(ds, strictKeys) IN
    IF entry = "raise" THEN Raised
    ELSE IF entry = "error" THEN Returned(ErrorNoAccess, NoLocals)
    ELSE
    LET selectedFeatures == ds[selectionID].selectedFeatures
        fullSource == ds[fullLayerID]
    IN  IF Len(selectedFeatures) > 0
        THEN LET r == ResolveValue(First(selectedFeatures), fullSource.layer,
                                   "Number_Of_Fatal_Crashes")
             IN  IF r.raised THEN Raised
                 ELSE IF ~IsEmpty(r.value)
                 THEN Returned(TextGrouped(Number(r.value)), LocalsOf(r))
                 ELSE Returned("0", LocalsOf(r))
        ELSE Returned(TextGrouped(Sum(fullSource.layer, "Number_Of_Fatal_Crashes")),
                      NoLocals)

\* --------------------------------------------------------- AADT.js, lines 1-93

\* The loop adding AADT and counting features: a plain mean.
RECURSIVE WeightedAADT_Unweighted(_)
WeightedAADT_Unweighted(allFeatures) ==
    IF Len(allFeatures) = 0 THEN [sumWeightedAADT |-> 0, sumTotalMiles |-> 0]
    ELSE LET feature == Head(allFeatures)
             aadt == feature["AADT"]
             totalMiles == feature["Total_Miles"]
             rest == WeightedAADT_Unweighted(Tail(allFeatures))
         IN  IF ~IsEmpty(aadt) /\ ~IsEmpty(totalMiles)
                /\ Number(aadt) > 0 /\ Number(totalMiles) > 0
             THEN [sumWeightedAADT |-> rest.sumWeightedAADT + Number(aadt),
                   sumTotalMiles |-> rest.sumTotalMiles + 1]
             ELSE rest

\* CASE B of the AADT script: the loop's two accumulators.
RECURSIVE WeightedAADT(_)
WeightedAADT(allFeatures) ==
    IF Len(allFeatures) = 0 THEN [sumWeightedAADT |-> 0, sumTotalMiles |-> 0]
    ELSE LET feature == Head(allFeatures)
             aadt == feature["AADT"]
             totalMiles == feature["Total_Miles"]
             rest == WeightedAADT(Tail(allFeatures))
         IN  IF ~IsEmpty(aadt) /\ ~IsEmpty(totalMiles)
                /\ Number(aadt) > 0 /\ Number(totalMiles) > 0
             THEN [sumWeightedAADT |-> rest.sumWeightedAADT + Number(aadt) * Number(totalMiles),
                   sumTotalMiles |-> rest.sumTotalMiles + Number(totalMiles)]
             ELSE rest

\* Text(Round(n / d, 0), "#,###"); a zero divisor gives NaN (0/0) or Infinity.
TextQuotient(n, d) ==
    IF d = 0 THEN (IF n = 0 THEN "NaN" ELSE "Infinity")
    ELSE TextGrouped(RoundDiv(n, d))

\* The division without the sumTotalMiles > 0 test.
AADTAverageText_NoGuard(sums) == TextQuotient(sums.sumWeightedAADT, sums.sumTotalMiles)

\* if (sumTotalMiles > 0) ... else displayText = "0"
AADTAverageText(sums) ==
    IF sums.sumTotalMiles > 0
    THEN TextQuotient(sums.sumWeightedAADT, sums.sumTotalMiles)
    ELSE "0"

AADT(ds, strictKeys) ==
    LET entry == Entry(ds, strictKeys) IN
    IF entry = "raise" THEN Raised
    ELSE IF entry = "error" THEN Returned(ErrorNoAccess, NoLocals)
    ELSE
    LET selectedFeatures == ds[selectionID].selectedFeatures
        fullSource == ds[fullLayerID]
    IN  IF Len(selectedFeatures) > 0
        THEN LET r == ResolveValue(First(selectedFeatures), fullSource.layer, "AADT")
             IN  IF r.raised THEN Raised
                 ELSE IF ~IsEmpty(r.value) /\ Number(r.value) > 0
                 THEN Returned(TextGrouped(Number(r.value)), LocalsOf(r))
                 ELSE Returned("0", LocalsOf(r))
        ELSE LET sums == WeightedAADT(fullSource.layer)
             IN  Returned(AADTAverageText(sums), NoLocals @@ sums)

\* ------------------------------------------------------ AADT.js, lines 94-163

Projects_Construction(ds, strictKeys) ==
    LET entry == Entry(ds, strictKeys) IN
    IF entry = "raise" THEN Raised
    ELSE IF entry = "error" THEN Returned(ErrorNoAccess, NoLocals)
    ELSE
    LET selectedFeatures == ds[selectionID].selectedFeatures
        fullSource == ds[fullLayerID]
    IN  IF Len(selectedFeatures) > 0
        THEN LET r == ResolveValue(First(selectedFeatures), fullSource.layer,
                                   "Projects_Construction")
             IN  IF r.raised THEN Raised
                 ELSE IF ~IsEmpty(r.value)
                 THEN Returned(TextGrouped(Number(r.value)), LocalsOf(r))
                 ELSE Returned("0", LocalsOf(r))
        ELSE Returned(TextGrouped(Sum(fullSource.layer, "Projects_Construction")),
                      NoLocals)

\* ------------------------------------------- formatCompact / FormatCompact

\* A number handed to a formatter is Null, or <<n, d>> for the quotient n / d
\* (d > 0), or NaN.
NaN == <<0, 0>>

IsNan(x) == x # Null /\ x[2] = 0

\* Round(x / divisor, 1) in tenths, for x = <<n, d>>; divisor is 1 or a power
\* of ten from 1000 up.
RoundedTenths(x, divisor) ==
    IF divisor = 1 THEN RoundDiv(10 * x[1], x[2])
    ELSE RoundDiv(x[1], x[2] * (divisor \div 10))

\* Abs(x) compared with a whole number: Abs(x) < k.
AbsBelow(x, k) == (Abs(x[1]) \div x[2]) < k

\* formatCompact rounding abs_n in the place of n: the sign is lost.
formatCompact_Unsigned(n) ==
    IF IsEmpty(n) THEN "$0"
    ELSE IF IsNan(n) THEN "$NaNB"
    ELSE LET abs_n == <<Abs(n[1]), n[2]>> IN
    IF AbsBelow(n, 1000) THEN "$" \o TextTenths(RoundedTenths(abs_n, 1))
    ELSE IF AbsBelow(n, 1000000) THEN "$" \o TextTenths(RoundedTenths(abs_n, 1000)) \o "K"
    ELSE IF AbsBelow(n, 1000000000)
    THEN "$" \o TextTenths(RoundedTenths(abs_n, 1000000)) \o "M"
    ELSE "$" \o TextTenths(RoundedTenths(abs_n, 1000000000)) \o "B"

\* formatCompact of the Project_Cost_Construction script.
formatCompact(n) ==
    IF IsEmpty(n) THEN "$0"
    ELSE IF IsNan(n) THEN "$NaNB"
    ELSE IF AbsBelow(n, 1000) THEN "$" \o TextTenths(RoundedTenths(n, 1))
    ELSE IF AbsBelow(n, 1000000) THEN "$" \o TextTenths(RoundedTenths(n, 1000)) \o "K"
    ELSE IF AbsBelow(n, 1000000000)
    THEN "$" \o TextTenths(RoundedTenths(n, 1000000)) \o "M"
    ELSE "$" \o TextTenths(RoundedTenths(n, 1000000000)) \o "B"

\* FormatCompact of the Truck_AADT script.
FormatCompact(n) ==
    IF IsEmpty(n) \/ IsNan(n) THEN "0"
    ELSE
    LET absVal == <<Abs(n[1]), n[2]>>
        sign == IF n[1] < 0 THEN -1 ELSE 1
        divisor == IF ~AbsBelow(absVal, 1000000000) THEN 1000000000
                   ELSE IF ~AbsBelow(absVal, 1000000) THEN 1000000
                   ELSE IF ~AbsBelow(absVal, 1000) THEN 1000
                   ELSE 1
        suffix == IF ~AbsBelow(absVal, 1000000000) THEN "B"
                  ELSE IF ~AbsBelow(absVal, 1000000) THEN "M"
                  ELSE IF ~AbsBelow(absVal, 1000) THEN "K"
                  ELSE ""
        rounded == RoundedTenths(<<absVal[1] * sign, absVal[2]>>, divisor)
    IN  TextTenths(rounded) \o suffix

\* ------------------------------------ part_000 (Project_Cost_Construction)

Project_Cost_Construction(ds, strictKeys) ==
    LET entry == Entry(ds, strictKeys) IN
    IF entry = "raise" THEN Raised
    ELSE IF entry = "error" THEN Returned(ErrorNoAccess, NoLocals)
    ELSE
    LET selectedFeatures == ds[selectionID].selectedFeatures
        fullSource == ds[fullLayerID]
    IN  IF Len(selectedFeatures) > 0
        THEN LET r == ResolveValue(First(selectedFeatures), fullSource.layer,
                                   "Project_Cost_Construction")
             IN  IF r.raised THEN Raised
                 ELSE IF ~IsEmpty(r.value)
                 THEN Returned(formatCompact(<<Number(r.value), 1>>), LocalsOf(r))
                 ELSE Returned("$0", LocalsOf(r))
        ELSE Returned(formatCompact(<<Sum(fullSource.layer, "Project_Cost_Construction"), 1>>),
                      NoLocals)

\* ------------------------------------------------------------ total_miles.js

\* Text(v, "#,###.0") of a field value; an empty value gives the empty text.
TextMilesValue(v) == IF IsEmpty(v) THEN "" ELSE TextMiles(Number(v))

total_miles(ds, strictKeys) ==
    LET entry == Entry(ds, strictKeys) IN
    IF entry = "raise" THEN Raised
    ELSE IF entry = "error" THEN Returned(ErrorNoAccess, NoLocals)
    ELSE
    LET selectedFeatures == ds[selectionID].selectedFeatures
        fullSource == ds[fullLayerID]
    IN  IF Len(selectedFeatures) > 0
        THEN LET feature == First(selectedFeatures)
             IN  IF ~HasKey(feature, "Total_Miles") THEN Raised
                 ELSE Returned(TextMilesValue(feature["Total_Miles"]) \o " mi",
                               [NoLocals EXCEPT !.value = feature["Total_Miles"]])
        ELSE Returned(TextMiles(Sum(fullSource.layer, "Total_Miles")) \o " mi", NoLocals)

\* --------------------------------------------------------- corridor_title.js

\* Count(Distinct(allFeatures, "Corridor"))
DistinctCount(allFeatures, fieldName) ==
    Cardinality({allFeatures[i][fieldName] : i \in 1..Len(allFeatures)})

\* A text value inside a concatenation: null adds nothing.
TextOf(v) == IF IsEmpty(v) THEN "" ELSE v[1]

\* corridor_title with the line of CASE B that is commented out in the place
\* of the fixed title: "Fort Worth District has " + Text(totalCount) + " Corridors".
corridor_title_Count(ds, strictKeys) ==
    LET entry == Entry(ds, strictKeys) IN
    IF entry = "raise" THEN Raised
    ELSE IF entry = "error" THEN Returned(ErrorNoAccess, NoLocals)
    ELSE
    LET selectedFeatures == ds[selectionID].selectedFeatures
        fullSource == ds[fullLayerID]
    IN  IF Len(selectedFeatures) > 0
        THEN LET feature == First(selectedFeatures)
             IN  IF ~HasKey(feature, "Corridor") THEN Raised
                 ELSE Returned(TextOf(feature["Corridor"]) \o " Corridor Profile",
                               [NoLocals EXCEPT !.value = feature["Corridor"]])
        ELSE LET totalCount == DistinctCount(fullSource.layer, "Corridor")
             IN  Returned("Fort Worth District has " \o ToString(totalCount) \o " Corridors",
                          NoLocals @@ [totalCount |-> totalCount])

corridor_title(ds, strictKeys) ==
    LET entry == Entry(ds, strictKeys) IN
    IF entry = "raise" THEN Raised
    ELSE IF entry = "error" THEN Returned(ErrorNoAccess, NoLocals)
    ELSE
    LET selectedFeatures == ds[selectionID].selectedFeatures
        fullSource == ds[fullLayerID]
    IN  IF Len(selectedFeatures) > 0
        THEN LET feature == First(selectedFeatures)
             IN  IF ~HasKey(feature, "Corridor") THEN Raised
                 ELSE Returned(TextOf(feature["Corridor"]) \o " Corridor Profile",
                               [NoLocals EXCEPT !.value = feature["Corridor"]])
        ELSE Returned("Fort Worth District Corridors with Greatest Needs",
                      NoLocals @@ [totalCount |-> DistinctCount(fullSource.layer, "Corridor")])

\* ---------------------------------------------------------------- GetVal

\* GetVal(feat, key): the field's value, null when the view lacks the field.
GetVal(feat, key) == IF HasKey(feat, key) THEN feat[key] ELSE Null

\* The guarded loop with <= 0.01 in the place of < 0.01.
RECURSIVE ScanMilesGuarded_Inclusive(_, _, _)
ScanMilesGuarded_Inclusive(allFeats, targetMiles, i) ==
    IF i > Len(allFeats) THEN 0
    ELSE LET fMiles == GetVal(allFeats[i], "Total_Miles")
         IN  IF ~IsEmpty(fMiles) /\ Abs(Number(fMiles) - Number(targetMiles)) <= Tolerance
             THEN i
             ELSE ScanMilesGuarded_Inclusive(allFeats, targetMiles, i + 1)

\* for (var f in allFeats) { var fMiles = GetVal(f, "Total_Miles");
\*   if (!IsEmpty(fMiles) && Abs(Number(fMiles) - Number(targetMiles)) < 0.01) ... }
RECURSIVE ScanMilesGuarded(_, _, _)
ScanMilesGuarded(allFeats, targetMiles, i) ==
    IF i > Len(allFeats) THEN 0
    ELSE LET fMiles == GetVal(allFeats[i], "Total_Miles")
         IN  IF ~IsEmpty(fMiles) /\ Abs(Number(fMiles) - Number(targetMiles)) < Tolerance
             THEN i
             ELSE ScanMilesGuarded(allFeats, targetMiles, i + 1)

\* ------------------------------------------------------------- 4D+_miles.js

\* Lower(Trim(Text(value))) on the highway names of the model.
LowerTrim(s) ==
    CASE s = "SH 1" -> "sh 1"
      [] s = "sh 1 " -> "sh 1"
      [] s = "US 2" -> "us 2"
      [] OTHER -> s

\* STRATEGY A: the first layer feature with a non-empty HWY equal to targetKey.
RECURSIVE ScanHWY(_, _, _)
ScanHWY(allFeats, targetKey, i) ==
    IF i > Len(allFeats) THEN 0
    ELSE LET fHWY == GetVal(allFeats[i], "HWY")
         IN  IF ~IsEmpty(fHWY) /\ LowerTrim(fHWY[1]) = targetKey
             THEN i
             ELSE ScanHWY(allFeats, targetKey, i + 1)

\* The loop body with the two strategies in the other order: Total_Miles
\* first, HWY when it matched nothing.
Resolve4D_MilesFirst(selFeature, allFeats) ==
    LET val == GetVal(selFeature, "four_D_plus_miles")
        targetHWY == GetVal(selFeature, "HWY")
        a == IF IsEmpty(targetHWY) THEN 0
             ELSE ScanHWY(allFeats, LowerTrim(targetHWY[1]), 1)
        targetMiles == GetVal(selFeature, "Total_Miles")
        b == IF IsEmpty(targetMiles) THEN 0
             ELSE ScanMilesGuarded(allFeats, targetMiles, 1)
    IN  IF ~IsEmpty(val)
        THEN [value |-> val, fallback |-> FALSE, matched |-> 0, strategy |-> "direct"]
        ELSE IF b > 0
        THEN [value |-> GetVal(allFeats[b], "four_D_plus_miles"), fallback |-> TRUE,
              matched |-> b, strategy |-> "Total_Miles"]
        ELSE IF a > 0
        THEN [value |-> GetVal(allFeats[a], "four_D_plus_miles"), fallback |-> TRUE,
              matched |-> a, strategy |-> "HWY"]
        ELSE [value |-> Null, fallback |-> TRUE, matched |-> 0, strategy |-> "none"]

\* One pass of the loop over selectedFeatures: val, and how it was found.
Resolve4D(selFeature, allFeats) ==
    LET val == GetVal(selFeature, "four_D_plus_miles")
        targetHWY == GetVal(selFeature, "HWY")
        a == IF IsEmpty(targetHWY) THEN 0
             ELSE ScanHWY(allFeats, LowerTrim(targetHWY[1]), 1)
        targetMiles == GetVal(selFeature, "Total_Miles")
        b == IF IsEmpty(targetMiles) THEN 0
             ELSE ScanMilesGuarded(allFeats, targetMiles, 1)
    IN  IF ~IsEmpty(val)
        THEN [value |-> val, fallback |-> FALSE, matched |-> 0, strategy |-> "direct"]
        ELSE IF a > 0
        THEN [value |-> GetVal(allFeats[a], "four_D_plus_miles"), fallback |-> TRUE,
              matched |-> a, strategy |-> "HWY"]
        ELSE IF b > 0
        THEN [value |-> GetVal(allFeats[b], "four_D_plus_miles"), fallback |-> TRUE,
              matched |-> b, strategy |-> "Total_Miles"]
        ELSE [value |-> Null, fallback |-> TRUE, matched |-> 0, strategy |-> "none"]

\* miles4Dplus += Number(val) for every pass that found a value.
RECURSIVE Total4D(_)
Total4D(resolved) ==
    IF Len(resolved) = 0 THEN 0
    ELSE (IF ~IsEmpty(Head(resolved).value) THEN Number(Head(resolved).value) ELSE 0)
         + Total4D(Tail(resolved))

four_D_plus_miles(ds, strictKeys) ==
    LET entry == Entry(ds, strictKeys) IN
    IF entry = "raise" THEN Raised
    ELSE IF entry = "error" THEN Returned(ErrorNoAccess, NoLocals)
    ELSE
    LET selectedFeatures == ds[selectionID].selectedFeatures
        fullSource == ds[fullLayerID]
    IN  IF Len(selectedFeatures) > 0
        THEN LET resolved == [i \in 1..Len(selectedFeatures) |->
                                 Resolve4D(selectedFeatures[i], fullSource.layer)]
                 miles4Dplus == Total4D(resolved)
             IN  Returned(TextMiles(miles4Dplus) \o " mi",
                          [value |-> resolved[1].value, fallback |-> resolved[1].fallback,
                           matched |-> resolved[1].matched,
                           resolved |-> resolved, miles4Dplus |-> miles4Dplus])
        ELSE Returned(TextMiles(Sum(fullSource.layer, "four_D_plus_miles")) \o " mi",
                      NoLocals)

\* ---------------------------------------- AADT.js, lines 166-339 (Truck_AADT)

ErrorNotFound == "Error: Data Source Not Found"

\* CASE A with a fallback that fills in only the values that are empty: the
\* matched layer feature does not overwrite a value the selected feature holds.
ResolveTruck_FillEmpty(selFeature, allFeats) ==
    LET valTruckAADT == GetVal(selFeature, "Truck_AADT")
        valTotalAADT == GetVal(selFeature, "AADT")
        valTons == GetVal(selFeature, "Tons")
        fallback == IsEmpty(valTruckAADT) \/ IsEmpty(valTons)
        targetMiles == GetVal(selFeature, "Total_Miles")
        m == IF fallback /\ ~IsEmpty(targetMiles)
             THEN ScanMilesGuarded(allFeats, targetMiles, 1)
             ELSE 0
    IN  IF m > 0
        THEN [value |-> IF IsEmpty(valTruckAADT) THEN GetVal(allFeats[m], "Truck_AADT")
                        ELSE valTruckAADT,
              valTotalAADT |-> IF IsEmpty(valTotalAADT) THEN GetVal(allFeats[m], "AADT")
                               ELSE valTotalAADT,
              valTons |-> IF IsEmpty(valTons) THEN GetVal(allFeats[m], "Tons") ELSE valTons,
              fallback |-> fallback, matched |-> m]
        ELSE [value |-> valTruckAADT, valTotalAADT |-> valTotalAADT, valTons |-> valTons,
              fallback |-> fallback, matched |-> 0]

\* CASE A: the three values of the first selected feature, or of the layer
\* feature the fallback loop stops at.
ResolveTruck(selFeature, allFeats) ==
    LET valTruckAADT == GetVal(selFeature, "Truck_AADT")
        valTotalAADT == GetVal(selFeature, "AADT")
        valTons == GetVal(selFeature, "Tons")
        fallback == IsEmpty(valTruckAADT) \/ IsEmpty(valTons)
        targetMiles == GetVal(selFeature, "Total_Miles")
        m == IF fallback /\ ~IsEmpty(targetMiles)
             THEN ScanMilesGuarded(allFeats, targetMiles, 1)
             ELSE 0
    IN  IF m > 0
        THEN [value |-> GetVal(allFeats[m], "Truck_AADT"),
              valTotalAADT |-> GetVal(allFeats[m], "AADT"),
              valTons |-> GetVal(allFeats[m], "Tons"),
              fallback |-> fallback, matched |-> m]
        ELSE [value |-> valTruckAADT, valTotalAADT |-> valTotalAADT, valTons |-> valTons,
              fallback |-> fallback, matched |-> 0]

\* CASE B: the loop's four accumulators.
RECURSIVE WeightedTruck(_)
WeightedTruck(allFeatures) ==
    IF Len(allFeatures) = 0
    THEN [sumWeightedTruckAADT |-> 0, sumWeightedTotalAADT |-> 0,
          sumWeightedTons |-> 0, sumTotalMiles |-> 0]
    ELSE LET feature == Head(allFeatures)
             n_t_aadt == Number(GetVal(feature, "Truck_AADT"))
             n_aadt == Number(GetVal(feature, "AADT"))
             n_tons == Number(GetVal(feature, "Tons"))
             n_miles == Number(GetVal(feature, "Total_Miles"))
             rest == WeightedTruck(Tail(allFeatures))
         IN  IF n_t_aadt > 0 /\ n_miles > 0
             THEN [sumWeightedTruckAADT |-> rest.sumWeightedTruckAADT + n_t_aadt * n_miles,
                   sumWeightedTotalAADT |-> rest.sumWeightedTotalAADT + n_aadt * n_miles,
                   sumWeightedTons |-> rest.sumWeightedTons + n_tons * n_miles,
                   sumTotalMiles |-> rest.sumTotalMiles + n_miles]
             ELSE rest

\* if (sumTotalMiles > 0) { ...; hasData = true; }
TruckHasAverage(sums) == sums.sumTotalMiles > 0

\* Text(numTruck / numTotal, "#%") behind the guard numTotal > 0, else "0%".
\* The two numbers have the same divisor, so their quotient is numTruck/numTotal.
TruckPercent(numTruck, numTotal) ==
    IF numTotal > 0 THEN ToString(RoundDiv(100 * numTruck, numTotal)) \o "%"
    ELSE "0%"

\* The output of the hasData branch; the three numbers are numTruck / d,
\* numTotal / d and numTons / d.
TruckText(numTruck, numTotal, numTons, d) ==
    TextQuotient(numTruck, d) \o " / " \o TruckPercent(numTruck, numTotal)
        \o " / " \o FormatCompact(IF d = 0 THEN NaN ELSE <<numTons, d>>) \o " Tons"

Truck_AADT(ds, strictKeys) ==
    LET entry == Entry(ds, strictKeys) IN
    IF entry = "raise" THEN Raised
    ELSE IF entry = "error" THEN Returned(ErrorNotFound, NoLocals)
    ELSE
    LET selectedFeatures == ds[selectionID].selectedFeatures
        fullSource == ds[fullLayerID]
    IN  IF Len(selectedFeatures) > 0
        THEN LET r == ResolveTruck(First(selectedFeatures), fullSource.layer)
                 hasData == ~IsEmpty(r.value)
             IN  Returned(IF hasData
                          THEN TruckText(Number(r.value), Number(r.valTotalAADT),
                                         Number(r.valTons), 1)
                          ELSE "0 / 0% / 0",
                          r @@ [hasData |-> hasData])
        ELSE LET sums == WeightedTruck(fullSource.layer)
                 hasData == TruckHasAverage(sums)
             IN  Returned(IF hasData
                          THEN TruckText(sums.sumWeightedTruckAADT, sums.sumWeightedTotalAADT,
                                         sums.sumWeightedTons, sums.sumTotalMiles)
                          ELSE "0 / 0% / 0",
                          NoLocals @@ sums @@ [hasData |-> hasData])

\* ------------------------------------------------------------ the host's data

Scripts ==
    {"AADT", "Projects_Construction", "Truck_AADT", "Number_Of_Fatal_Crashes",
     "Project_Cost_Construction", "total_miles", "corridor_title", "four_D_plus_miles"}

\* The fields a script reads.
FieldsOf(s) ==
    CASE s = "AADT" -> {"AADT", "Total_Miles"}
      [] s = "Projects_Construction" -> {"Projects_Construction", "Total_Miles"}
      [] s = "Truck_AADT" -> {"Truck_AADT", "AADT", "Tons", "Total_Miles"}
      [] s = "Number_Of_Fatal_Crashes" -> {"Number_Of_Fatal_Crashes", "Total_Miles"}
      [] s = "Project_Cost_Construction" -> {"Project_Cost_Construction", "Total_Miles"}
      [] s = "total_miles" -> {"Total_Miles"}
      [] s = "corridor_title" -> {"Corridor"}
      [] s = "four_D_plus_miles" -> {"four_D_plus_miles", "HWY", "Total_Miles"}

\* The field CASE A of a script resolves.
TargetField(s) ==
    CASE s = "Truck_AADT" -> "Truck_AADT"
      [] s = "total_miles" -> "Total_Miles"
      [] s = "corridor_title" -> "Corridor"
      [] OTHER -> s

\* The values a field takes in the selection view, per script.
SelValues(s, field) ==
    CASE s = "AADT" /\ field = "AADT" -> {Null, <<0>>, <<5>>}
      [] s = "Projects_Construction" /\ field = "Projects_Construction" -> {Null, <<3>>}
      [] s = "Number_Of_Fatal_Crashes" /\ field = "Number_Of_Fatal_Crashes" -> {Null, <<2>>}
      [] s = "Project_Cost_Construction" /\ field = "Project_Cost_Construction"
            -> {Null, <<950>>}
      [] s = "total_miles" /\ field = "Total_Miles" -> {Null, <<0>>, <<30>>, <<250>>}
      [] s = "corridor_title" /\ field = "Corridor" -> {Null, <<"IH 35">>}
      [] s = "four_D_plus_miles" /\ field = "four_D_plus_miles" -> {Null, <<30>>}
      [] s = "four_D_plus_miles" /\ field = "HWY" -> {Null, <<"sh 1 ">>, <<"US 2">>}
      [] s = "four_D_plus_miles" /\ field = "Total_Miles" -> {Null, <<1>>}
      [] s = "Truck_AADT" /\ field = "Truck_AADT" -> {Null, <<2>>}
      [] s = "Truck_AADT" /\ field = "AADT" -> {<<8>>}
      [] s = "Truck_AADT" /\ field = "Tons" -> {Null, <<1500>>}
      [] s = "Truck_AADT" /\ field = "Total_Miles" -> {Null, <<1>>}
      [] OTHER -> {Null, <<0>>, <<1>>, <<2>>}

\* The values a field takes in the full layer, per script.
RefValues(s, field) ==
    CASE s = "AADT" /\ field = "AADT" -> {Null, <<0>>, <<4>>, <<10>>}
      [] s = "Projects_Construction" /\ field = "Projects_Construction" -> {Null, <<6>>}
      [] s = "Number_Of_Fatal_Crashes" /\ field = "Number_Of_Fatal_Crashes" -> {Null, <<7>>}
      [] s = "Project_Cost_Construction" /\ field = "Project_Cost_Construction"
            -> {Null, <<1500>>}
      [] s = "total_miles" /\ field = "Total_Miles" -> {Null, <<30>>, <<250>>, <<100000>>}
      [] s = "corridor_title" /\ field = "Corridor" -> {Null, <<"IH 35">>, <<"US 287">>}
      [] s = "four_D_plus_miles" /\ field = "four_D_plus_miles" -> {Null, <<50>>}
      [] s = "four_D_plus_miles" /\ field = "HWY" -> {Null, <<"SH 1">>, <<"US 2">>}
      [] s = "four_D_plus_miles" /\ field = "Total_Miles" -> {Null, <<2>>, <<3>>}
      [] s = "Truck_AADT" /\ field = "Truck_AADT" -> {Null, <<6>>}
      [] s = "Truck_AADT" /\ field = "AADT" -> {Null, <<12>>}
      [] s = "Truck_AADT" /\ field = "Tons" -> {Null, <<2500>>}
      [] s = "Truck_AADT" /\ field = "Total_Miles" -> {Null, <<2>>, <<3>>}
      [] OTHER -> {Null, <<0>>, <<1>>, <<2>>}

\* The schemas of the selection view: every field the script reads, or the
\* view lacks the value fields, or it lacks Total_Miles.
SelectionSchemas(s) ==
    {FieldsOf(s), FieldsOf(s) \ {"Total_Miles"}, FieldsOf(s) \cap {"Total_Miles", "HWY"}}

\* The features of a view whose schema holds `fields`: one record per choice
\* of a value for every field.
RECURSIVE Features(_, _, _)
Features(s, fields, sel) ==
    IF fields = {} THEN {<<>>}
    ELSE LET k == CHOOSE x \in fields : TRUE
         IN  {(k :> v) @@ f :
                 v \in (IF sel THEN SelValues(s, k) ELSE RefValues(s, k)),
                 f \in Features(s, fields \ {k}, sel)}

Evaluate(s, ds, strictKeys) ==
    CASE s = "AADT" -> AADT(ds, strictKeys)
      [] s = "Projects_Construction" -> Projects_Construction(ds, strictKeys)
      [] s = "Truck_AADT" -> Truck_AADT(ds, strictKeys)
      [] s = "Number_Of_Fatal_Crashes" -> Number_Of_Fatal_Crashes(ds, strictKeys)
      [] s = "Project_Cost_Construction" -> Project_Cost_Construction(ds, strictKeys)
      [] s = "total_miles" -> total_miles(ds, strictKeys)
      [] s = "corridor_title" -> corridor_title(ds, strictKeys)
      [] s = "four_D_plus_miles" -> four_D_plus_miles(ds, strictKeys)

\* $dataSources with the sources `present`.
DataSources(present, sf, sel, lay) ==
    [id \in present |->
        IF id = selectionID THEN [fields |-> sf, selectedFeatures |-> sel]
        ELSE [layer |-> lay]]

\* The widget renders: the host supplies the data sources and script s runs to
\* its return statement (or to an execution error).
Render(s) ==
    /\ pc = "idle"
    /\ script = s
    /\ \E present \in SUBSET {selectionID, fullLayerID} :
       \E sf \in (IF selectionID \in present THEN SelectionSchemas(s) ELSE {{}}) :
       \E n \in (IF selectionID \in present THEN 0..MaxSel ELSE {0}) :
       \E m \in (IF fullLayerID \in present
                 THEN 0..(IF MaxFeatures - n < MaxRef THEN MaxFeatures - n ELSE MaxRef)
                 ELSE {0}) :
       \E sel \in [1..n -> Features(s, sf, TRUE)],
          lay \in [1..m -> Features(s, FieldsOf(s), FALSE)] :
       \E strictKeys \in (IF selectionID \in present THEN {TRUE} ELSE BOOLEAN) :
          LET ds == DataSources(present, sf, sel, lay)
              out == Evaluate(s, ds, strictKeys)
          IN  /\ dataSources' = ds
              /\ raised' = out.raised
              /\ displayText' = out.displayText
              /\ locals' = out.locals
    /\ pc' = "done"
    /\ UNCHANGED script

Init ==
    /\ pc = "idle"
    /\ script \in Scripts
    /\ dataSources = <<>>
    /\ raised = FALSE
    /\ displayText = ""
    /\ locals = NoLocals

\* The host discards the record; the next render starts from nothing.
Discard ==
    /\ pc = "done"
    /\ pc' = "idle"
    /\ dataSources' = <<>>
    /\ raised' = FALSE
    /\ displayText' = ""
    /\ locals' = NoLocals
    /\ UNCHANGED script

Next ==
    \/ Render("AADT")
    \/ Render("Projects_Construction")
    \/ Render("Truck_AADT")
    \/ Render("Number_Of_Fatal_Crashes")
    \/ Render("Project_Cost_Construction")
    \/ Render("total_miles")
    \/ Render("corridor_title")
    \/ Render("four_D_plus_miles")
    \/ Discard

Spec == Init /\ [][Next]_vars

\* ------------------------------------------- the two formatters on their own

Formatters == {"formatCompact", "FormatCompact"}

\* Whole numbers around the band limits 1000, 1e6 and 1e9.
CompactWholes ==
    {0, 1, 4, 5, 49, 50, 51, 949, 999, 1000, 1001, 1049, 1050, 1499, 1500, 99949,
     99950, 999949, 999950, 999999, 1000000, 1000001, 1049999, 1050000, 2500000,
     999949999, 999950000, 999999999, 1000000000, 1000000001, 1049999999,
     1050000000, 2147483647}

\* The numbers handed to the formatters: whole numbers, halves and twentieths,
\* of either sign, and the two inputs that are no number.
CompactInputs ==
    {<<k, 1>> : k \in CompactWholes} \cup {<<-k, 1>> : k \in CompactWholes}
        \cup {<<k, d>> : k \in {1, 19, 1999, 19989, 19999, 20001, 29999, 1999999,
                                 19999999, -1, -1999, -19999, -29999},
                         d \in {2, 20}}
        \cup {Null, NaN}

Format(f, n) == IF f = "formatCompact" THEN formatCompact(n) ELSE FormatCompact(n)

\* Formatter f is applied to a number n.
Apply(f) ==
    /\ pc = "idle"
    /\ script = f
    /\ \E n \in CompactInputs :
          /\ locals' = [n |-> n]
          /\ displayText' = Format(f, n)
    /\ pc' = "done"
    /\ UNCHANGED <<script, dataSources, raised>>

InitFormat ==
    /\ pc = "idle"
    /\ script \in Formatters
    /\ dataSources = <<>>
    /\ raised = FALSE
    /\ displayText = ""
    /\ locals = NoLocals

NextFormat ==
    \/ Apply("formatCompact")
    \/ Apply("FormatCompact")
    \/ Discard

SpecFormat == InitFormat /\ [][NextFormat]_vars

\* ====================================================================== claims

Done == pc = "done"

HasSelection == selectionID \in DOMAIN dataSources

HasFull == fullLayerID \in DOMAIN dataSources

\* The LOGIC section ran.
Logic == Done /\ script \in Scripts /\ HasSelection /\ HasFull

selectedFeatures == dataSources[selectionID].selectedFeatures

layer == dataSources[fullLayerID].layer

CaseA == Logic /\ Len(selectedFeatures) > 0

CaseB == Logic /\ Len(selectedFeatures) = 0

\* The scripts whose CASE A has a fallback, and those among them that match on
\* Total_Miles alone and read their fields with feature[...].
FallbackScripts ==
    {"AADT", "Projects_Construction", "Number_Of_Fatal_Crashes",
     "Project_Cost_Construction", "Truck_AADT", "four_D_plus_miles"}

SingleFieldScripts ==
    {"AADT", "Projects_Construction", "Number_Of_Fatal_Crashes",
     "Project_Cost_Construction"}

\* A field of a feature as a reader finds it: empty when it is null or absent.
Present(f, k) == k \in DOMAIN f /\ f[k] # Null

Miles(f) == f["Total_Miles"][1]

\* The sum of the values of a function with a finite domain.
RECURSIVE SumSet(_, _)
SumSet(f, S) ==
    IF S = {} THEN 0
    ELSE LET x == CHOOSE x \in S : TRUE IN f[x] + SumSet(f, S \ {x})

Total(f) == SumSet(f, DOMAIN f)

Least(S) == CHOOSE i \in S : \A j \in S : i <= j

\* ---------------------------------------------------------------------- C1

\* C1 as stated: whenever the full-layer source is not among the data sources,
\* every script returns one and the same error string, whatever is selected.
C1_SameErrorInEveryScript ==
    (Done /\ script \in Scripts /\ HasSelection /\ ~HasFull)
        => (~raised /\ displayText = "Error: The widget does not have access to the data.")

\* C1 amended: whenever the full-layer source is not among the data sources
\* (and the selection source is), a script returns its own fixed error string,
\* whatever is selected: "Error: Data Source Not Found" in the Truck_AADT
\* script, "Error: The widget does not have access to the data." in the others.
C1_ErrorStringPerScript ==
    (Done /\ script \in Scripts /\ HasSelection /\ ~HasFull)
        => /\ ~raised
           /\ displayText = IF script = "Truck_AADT"
                            THEN "Error: Data Source Not Found"
                            ELSE "Error: The widget does not have access to the data."

C1_Witness ==
    /\ Done /\ script = "Truck_AADT" /\ HasSelection /\ ~HasFull
    /\ Len(selectedFeatures) = 2
    /\ displayText = "Error: Data Source Not Found"

\* ---------------------------------------------------------------------- C2

\* The fields CASE A resolves: one, or the three of the truck script.
ResolvedFields(s) ==
    IF s = "Truck_AADT" THEN {"Truck_AADT", "AADT", "Tons"} ELSE {TargetField(s)}

\* What CASE A resolved for field k of the first selected feature.
ResolvedValue(k) ==
    IF script = "Truck_AADT" /\ k = "AADT" THEN locals.valTotalAADT
    ELSE IF script = "Truck_AADT" /\ k = "Tons" THEN locals.valTons
    ELSE locals.value

\* C2 as stated: a selected feature's target field that is present and
\* non-empty is the resolved value, and no value read from a layer feature
\* replaces it, in every script, the three fields of the truck script included.
C2_DirectValueInEveryScript ==
    (CaseA /\ ~raised)
        => \A k \in ResolvedFields(script) :
              Present(selectedFeatures[1], k)
                  => /\ ResolvedValue(k) = selectedFeatures[1][k]
                     /\ locals.matched = 0

\* C2 amended: in every script but the truck script, a target field that is
\* present and non-empty is the resolved value and the fallback is not
\* triggered (for the first selected feature, and for every selected feature
\* in the 4D+ miles script).  In the truck script this holds when Truck_AADT
\* and Tons are both non-empty: then Truck_AADT, AADT and Tons are the selected
\* feature's own.  With one of the two empty the fallback runs, and a layer
\* feature it matches replaces all three, the non-empty ones included.
C2_DirectValue ==
    (CaseA /\ ~raised)
        => /\ (script # "Truck_AADT" /\ Present(selectedFeatures[1], TargetField(script)))
                 => /\ locals.value = selectedFeatures[1][TargetField(script)]
                    /\ ~locals.fallback
                    /\ locals.matched = 0
           /\ script = "four_D_plus_miles" =>
                 \A i \in 1..Len(selectedFeatures) :
                    Present(selectedFeatures[i], "four_D_plus_miles")
                        => /\ locals.resolved[i].value = selectedFeatures[i]["four_D_plus_miles"]
                           /\ ~locals.resolved[i].fallback
                           /\ locals.resolved[i].matched = 0
           /\ (script = "Truck_AADT" /\ Present(selectedFeatures[1], "Truck_AADT")
                    /\ Present(selectedFeatures[1], "Tons"))
                 => /\ locals.value = selectedFeatures[1]["Truck_AADT"]
                    /\ locals.valTotalAADT = GetVal(selectedFeatures[1], "AADT")
                    /\ locals.valTons = selectedFeatures[1]["Tons"]
                    /\ ~locals.fallback
                    /\ locals.matched = 0
           /\ (script = "Truck_AADT" /\ locals.matched > 0)
                 => /\ ~(Present(selectedFeatures[1], "Truck_AADT")
                            /\ Present(selectedFeatures[1], "Tons"))
                    /\ locals.value = layer[locals.matched]["Truck_AADT"]
                    /\ locals.valTotalAADT = layer[locals.matched]["AADT"]
                    /\ locals.valTons = layer[locals.matched]["Tons"]

\* A selected feature with every value of its own, and a layer feature of the
\* same length that the fallback would have taken.
C2_Witness ==
    /\ CaseA /\ script = "Truck_AADT" /\ ~raised
    /\ Present(selectedFeatures[1], "Truck_AADT") /\ Present(selectedFeatures[1], "Tons")
    /\ Present(selectedFeatures[1], "Total_Miles")
    /\ \E i \in 1..Len(layer) :
          /\ Present(layer[i], "Total_Miles")
          /\ Abs(Miles(layer[i]) - Miles(selectedFeatures[1])) < 2
          /\ Present(layer[i], "Truck_AADT")
    /\ locals.value = selectedFeatures[1]["Truck_AADT"]
    /\ displayText = "2 / 25% / 1.5K Tons"

\* ---------------------------------------------------------------------- C3

\* The layer features whose Total_Miles is within the tolerance of t: they
\* hold a Total_Miles, and it differs from t by less than 0.01.
WithinTolerance(t) ==
    {i \in 1..Len(layer) :
        Present(layer[i], "Total_Miles") /\ Abs(Miles(layer[i]) - t) < 2}

\* C3: in the single-field scripts, with the target field of the first
\* selected feature empty and its Total_Miles not, the resolved value is the
\* target field of the first layer feature whose Total_Miles differs from it
\* by strictly less than 0.01, and is empty when there is no such feature.
C3_FirstWithinTolerance ==
    (CaseA /\ ~raised /\ script \in SingleFieldScripts
           /\ ~Present(selectedFeatures[1], TargetField(script))
           /\ Present(selectedFeatures[1], "Total_Miles"))
        => LET W == WithinTolerance(Miles(selectedFeatures[1]))
           IN  IF W = {} THEN locals.value = Null
               ELSE locals.value = layer[Least(W)][TargetField(script)]

\* ---------------------------------------------------------------------- C4

\* The layer features that pass a script's Total_Miles test against t: the
\* single-field scripts subtract without testing the layer value, so an empty
\* Total_Miles counts as 0 there; the truck and 4D+ scripts skip an empty one.
Matching(t) ==
    {i \in 1..Len(layer) :
        IF script \in SingleFieldScripts
        THEN Abs(Number(layer[i]["Total_Miles"]) - t) < 2
        ELSE Present(layer[i], "Total_Miles") /\ Abs(Miles(layer[i]) - t) < 2}

\* The layer features whose HWY is that of f, case and outer blanks aside.
SameHWY(f) ==
    {i \in 1..Len(layer) :
        /\ Present(f, "HWY") /\ Present(layer[i], "HWY")
        /\ LowerTrim(layer[i]["HWY"][1]) = LowerTrim(f["HWY"][1])}

\* f lacks the target field and exactly one layer feature matches its
\* Total_Miles.
OneMatch(f) ==
    /\ ~Present(f, TargetField(script))
    /\ Present(f, "Total_Miles")
    /\ Cardinality(Matching(Miles(f))) = 1

TheMatch(f) == CHOOSE i \in Matching(Miles(f)) : TRUE

FirstOnly(ds) ==
    [ds EXCEPT ![selectionID].selectedFeatures = <<Head(@)>>]

\* C5 as stated: with a selection, what a script returns is what it returns
\* for the first selected feature alone, in every script.
C5_FirstFeatureOnlyInEveryScript ==
    CaseA =>
        LET alone == Evaluate(script, FirstOnly(dataSources), TRUE)
        IN  raised = alone.raised /\ displayText = alone.displayText

\* C5 amended: with a selection, what a script returns is what it returns for
\* the first selected feature alone (with the same layer), in every script but
\* the 4D+ miles script, which resolves every selected feature and displays
\* the sum.
C5_FirstFeatureOnly ==
    (CaseA /\ script # "four_D_plus_miles") =>
        LET alone == Evaluate(script, FirstOnly(dataSources), TRUE)
        IN  raised = alone.raised /\ displayText = alone.displayText

\* Two selected features that a script resolves to different values: the first
\* by the fallback, the second by its own field.
C5_Witness ==
    /\ CaseA /\ script = "Project_Cost_Construction" /\ ~raised
    /\ Len(selectedFeatures) = 2
    /\ ~Present(selectedFeatures[1], "Project_Cost_Construction")
    /\ Present(selectedFeatures[2], "Project_Cost_Construction")
    /\ locals.matched = 1
    /\ displayText = "$1.5K"

\* ---------------------------------------------------------------------- C6

\* The scripts with a fixed zero-value string, and the string.
ZeroScripts ==
    {"AADT", "Projects_Construction", "Number_Of_Fatal_Crashes",
     "Project_Cost_Construction", "Truck_AADT"}

ZeroString(s) ==
    CASE s = "Project_Cost_Construction" -> "$0"
      [] s = "Truck_AADT" -> "0 / 0% / 0"
      [] OTHER -> "0"

Positive(i, k) == Present(layer[i], k) /\ layer[i][k][1] > 0

\* The layer features with both field k and Total_Miles greater than 0.
Both(k) == {i \in 1..Len(layer) : Positive(i, k) /\ Positive(i, "Total_Miles")}

\* sum(value * Total_Miles) and sum(Total_Miles) over the features S; an empty
\* value counts as 0.
WeightedOver(k, S) == Total([i \in S |-> Number(layer[i][k]) * Miles(layer[i])])

MilesOver(S) == Total([i \in S |-> Miles(layer[i])])

\* The sum the script holds for field k of the truck script.
TruckSum(k) ==
    CASE k = "Truck_AADT" -> locals.sumWeightedTruckAADT
      [] k = "AADT" -> locals.sumWeightedTotalAADT
      [] k = "Tons" -> locals.sumWeightedTons

\* C7 as stated: with nothing selected, each average is
\* sum(value * Total_Miles) / sum(Total_Miles) over the layer features in
\* which that value and Total_Miles are both greater than 0 (and 0 when there
\* is none): AADT in the AADT script, and each of Truck_AADT, AADT and Tons in
\* the truck script.
C7_AverageOverOwnFeatures ==
    (CaseB /\ ~raised)
        => /\ (script = "AADT" /\ locals.sumTotalMiles > 0)
                 => locals.sumWeightedAADT * MilesOver(Both("AADT"))
                       = WeightedOver("AADT", Both("AADT")) * locals.sumTotalMiles
           /\ (script = "Truck_AADT" /\ locals.hasData)
                 => \A k \in {"Truck_AADT", "AADT", "Tons"} :
                       IF Both(k) = {} THEN TruckSum(k) = 0
                       ELSE TruckSum(k) * MilesOver(Both(k))
                               = WeightedOver(k, Both(k)) * locals.sumTotalMiles

\* C7 amended: with nothing selected, the AADT script averages AADT over the
\* layer features in which AADT and Total_Miles are both greater than 0.  The
\* truck script takes one set of features for its three averages, those in
\* which Truck_AADT and Total_Miles are both greater than 0: the AADT and Tons
\* averages are sum(value * Total_Miles) / sum(Total_Miles) over that set, an
\* empty or non-positive AADT or Tons counting as it is (empty as 0) with its
\* Total_Miles still in the divisor.
C7_WeightedAverage ==
    (CaseB /\ ~raised)
        => /\ script = "AADT" =>
                 LET S == Both("AADT") IN
                 /\ locals.sumWeightedAADT = WeightedOver("AADT", S)
                 /\ locals.sumTotalMiles = MilesOver(S)
                 /\ S # {} => displayText
                                 = TextGrouped(RoundDiv(WeightedOver("AADT", S), MilesOver(S)))
           /\ script = "Truck_AADT" =>
                 LET S == Both("Truck_AADT") IN
                 /\ \A k \in {"Truck_AADT", "AADT", "Tons"} : TruckSum(k) = WeightedOver(k, S)
                 /\ locals.sumTotalMiles = MilesOver(S)
                 /\ S # {} => displayText
                                 = TruckText(WeightedOver("Truck_AADT", S),
                                             WeightedOver("AADT", S),
                                             WeightedOver("Tons", S), MilesOver(S))

\* Two layer features of different lengths and different AADT: the weighted
\* average (4 * 1 + 10 * 2) / 3 is 8, the plain mean is 7.
C7_Witness ==
    /\ CaseB /\ script = "AADT" /\ ~raised
    /\ Len(layer) = 2
    /\ Both("AADT") = {1, 2}
    /\ layer[1]["AADT"] = <<4>> /\ Miles(layer[1]) = 1
    /\ layer[2]["AADT"] = <<10>> /\ Miles(layer[2]) = 2
    /\ displayText = "8"

\* ---------------------------------------------------------------------- C8

\* The three numbers of the truck script's output and their common divisor.
TruckNumbers ==
    IF Len(selectedFeatures) > 0
    THEN [truck |-> Number(locals.value), total |-> Number(locals.valTotalAADT),
          tons |-> Number(locals.valTons), d |-> 1]
    ELSE [truck |-> locals.sumWeightedTruckAADT, total |-> locals.sumWeightedTotalAADT,
          tons |-> locals.sumWeightedTons, d |-> locals.sumTotalMiles]

\* C8: no script divides by zero.  With nothing selected and no layer feature
\* contributing a positive weight, the AADT script displays "0" and the truck
\* script "0 / 0% / 0"; neither ever displays the text of a quotient by zero.
\* The truck script divides by the total AADT only when it is greater than 0,
\* and displays "0%" otherwise.
C8_NoDivisionByZero ==
    (Logic /\ ~raised)
        => /\ script = "AADT" =>
                 /\ displayText \notin {"NaN", "Infinity"}
                 /\ (Len(selectedFeatures) = 0 /\ Both("AADT") = {}) => displayText = "0"
           /\ script = "Truck_AADT" =>
                 /\ (Len(selectedFeatures) = 0 /\ Both("Truck_AADT") = {})
                       => displayText = "0 / 0% / 0"
                 /\ locals.hasData =>
                       LET n == TruckNumbers IN
                       /\ n.d > 0
                       /\ displayText
                             = TextGrouped(RoundDiv(n.truck, n.d)) \o " / "
                                  \o (IF n.total > 0
                                      THEN ToString(RoundDiv(100 * n.truck, n.total)) \o "%"
                                      ELSE "0%")
                                  \o " / " \o FormatCompact(<<n.tons, n.d>>) \o " Tons"

\* Nothing selected, and every layer feature of the AADT script has an AADT
\* but no length: the sum of the weights is 0.
C8_Witness ==
    /\ CaseB /\ script = "AADT" /\ ~raised
    /\ Len(layer) = 2
    /\ \A i \in 1..2 : Positive(i, "AADT") /\ ~Positive(i, "Total_Miles")
    /\ locals.sumTotalMiles = 0
    /\ displayText = "0"

\* ---------------------------------------------------------------------- C9

SumScripts ==
    {"Number_Of_Fatal_Crashes", "Projects_Construction", "Project_Cost_Construction",
     "total_miles", "four_D_plus_miles"}

\* The target field summed over the layer, an empty value adding 0.
LayerSum(k) ==
    Total([i \in 1..Len(layer) |-> IF Present(layer[i], k) THEN layer[i][k][1] ELSE 0])

\* C9: with nothing selected, each sum script displays the formatted sum of
\* its target field over all layer features, an empty value adding 0; over an
\* empty layer the sum is 0.
C9_SumOverLayer ==
    (CaseB /\ ~raised /\ script \in SumScripts)
        => LET sum == LayerSum(TargetField(script)) IN
           /\ Len(layer) = 0 => sum = 0
           /\ displayText
                 = CASE script \in {"Number_Of_Fatal_Crashes", "Projects_Construction"}
                          -> TextGrouped(sum)
                     [] script = "Project_Cost_Construction" -> formatCompact(<<sum, 1>>)
                     [] OTHER -> TextMiles(sum) \o " mi"

\* Two layer features, one with an empty target field: 0 + 1,500.
C9_Witness ==
    /\ CaseB /\ script = "Project_Cost_Construction" /\ ~raised
    /\ Len(layer) = 2
    /\ ~Present(layer[1], "Project_Cost_Construction")
    /\ layer[2]["Project_Cost_Construction"] = <<1500>>
    /\ displayText = "$1.5K"

\* --------------------------------------------------------------------- C10

\* The band of the number n = <<n1, d>>: the divisor and the suffix that go
\* with the whole part of |n|.
BandDivisor(n) ==
    LET a == Abs(n[1]) \div n[2]
    IN  IF a < 1000 THEN 1
        ELSE IF a < 1000000 THEN 1000
        ELSE IF a < 1000000000 THEN 1000000
        ELSE 1000000000

BandSuffix(n) ==
    CASE BandDivisor(n) = 1 -> ""
      [] BandDivisor(n) = 1000 -> "K"
      [] BandDivisor(n) = 1000000 -> "M"
      [] OTHER -> "B"

\* n divided by its band's divisor, rounded to one decimal, in tenths.
BandTenths(n) ==
    IF BandDivisor(n) = 1 THEN RoundDiv(10 * n[1], n[2])
    ELSE RoundDiv(n[1], n[2] * (BandDivisor(n) \div 10))

\* C10: for a number n, each formatter prints n divided by the divisor of the
\* band of |n| (1, 1000, 1e6, 1e9), rounded to one decimal with the sign of n,
\* followed by the band's suffix (none, K, M, B), and formatCompact's text is
\* "$" followed by FormatCompact's.
C10_CompactBands ==
    (Done /\ script \in Formatters /\ locals.n # Null /\ ~IsNan(locals.n))
        => /\ displayText
                 = (IF script = "formatCompact" THEN "$" ELSE "")
                      \o TextTenths(BandTenths(locals.n)) \o BandSuffix(locals.n)
           /\ formatCompact(locals.n) = "$" \o FormatCompact(locals.n)

\* A negative number of the K band: -1,500 is printed -1.5K.
C10_Witness ==
    /\ Done /\ script = "FormatCompact"
    /\ locals.n = <<-1500, 1>>
    /\ displayText = "-1.5K"

\* --------------------------------------------------------------------- C11

\* C11, for formatCompact of the Project_Cost_Construction script: an empty
\* input, a NaN input and the input 0 all give exactly "$0".
C11_DollarZero ==
    (Done /\ script = "formatCompact" /\ locals.n \in {Null, NaN, <<0, 1>>})
        => displayText = "$0"

\* --------------------------------------------------------------------- C12

\* C12, for the context in which the host supplies the full layer and not the
\* selection source: the evaluation does not raise and returns a text.
C12_NeverRaises ==
    (Done /\ script \in Scripts /\ ~HasSelection /\ HasFull)
        => (~raised /\ displayText # "")

\* --------------------------------------------------------------------- C13

\* The number of distinct Corridor values of a layer.
Corridors(lay) == Cardinality({lay[i]["Corridor"] : i \in 1..Len(lay)})

\* The layers the host can supply to the corridor title script.
CorridorLayers ==
    UNION {[1..m -> Features("corridor_title", {"Corridor"}, FALSE)] : m \in 0..MaxRef}

\* C13 as stated: in the corridor title script with nothing selected, the
\* displayed value is derived from the number of distinct Corridor values: a
\* layer with another number of distinct corridors gives another text.
C13_TitleFromDistinctCount ==
    (CaseB /\ script = "corridor_title" /\ ~raised)
        => \A other \in CorridorLayers :
              Corridors(other) # Corridors(layer)
                  => corridor_title([dataSources EXCEPT ![fullLayerID].layer = other],
                                    TRUE).displayText # displayText

\* C13 amended: in the corridor title script with nothing selected, the
\* displayed value is the fixed title "Fort Worth District Corridors with
\* Greatest Needs" whatever the layer holds; the number of distinct Corridor
\* values is computed and not displayed.
C13_FixedTitle ==
    (CaseB /\ script = "corridor_title" /\ ~raised)
        => /\ displayText = "Fort Worth District Corridors with Greatest Needs"
           /\ locals.totalCount = Corridors(layer)

\* Nothing selected and a layer of two different corridors.
C13_Witness ==
    /\ CaseB /\ script = "corridor_title" /\ ~raised
    /\ Len(layer) = 2
    /\ Present(layer[1], "Corridor") /\ Present(layer[2], "Corridor")
    /\ layer[1]["Corridor"] # layer[2]["Corridor"]
    /\ locals.totalCount = 2
    /\ displayText = "Fort Worth District Corridors with Greatest Needs"

\* --------------------------------------------------------------------- C14

\* The layer feature the 4D+ miles script takes the value of selected feature
\* f from, 0 for none: the first with f's HWY, else the first with f's
\* Total_Miles.
Source4D(f) ==
    IF Present(f, "four_D_plus_miles") THEN 0
    ELSE IF SameHWY(f) # {} THEN Least(SameHWY(f))
    ELSE IF Present(f, "Total_Miles") /\ Matching(Miles(f)) # {}
    THEN Least(Matching(Miles(f)))
    ELSE 0

\* The value resolved for f, as a number: an empty value adds 0.
Value4D(f) ==
    IF Present(f, "four_D_plus_miles") THEN f["four_D_plus_miles"][1]
    ELSE IF Source4D(f) = 0 THEN 0
    ELSE IF Present(layer[Source4D(f)], "four_D_plus_miles")
    THEN layer[Source4D(f)]["four_D_plus_miles"][1]
    ELSE 0

\* C14: in the 4D+ miles script, a selected feature with an empty
\* four_D_plus_miles takes the value of the first layer feature with the same
\* HWY (trimmed, lower-cased), even an empty one; the first layer feature
\* within 0.01 of its Total_Miles is used only when its HWY is empty or no
\* layer feature has it.  The display is the sum of the non-empty resolved
\* values of all selected features.
C14_HWYFirst ==
    (CaseA /\ script = "four_D_plus_miles")
        => /\ ~raised
           /\ \A i \in 1..Len(selectedFeatures) :
                 LET f == selectedFeatures[i]
                     r == locals.resolved[i]
                 IN  /\ r.matched = Source4D(f)
                     /\ r.matched > 0 => r.value = layer[r.matched]["four_D_plus_miles"]
                     /\ r.strategy = "HWY"
                           <=> (~Present(f, "four_D_plus_miles") /\ SameHWY(f) # {})
                     /\ r.strategy = "Total_Miles"
                           => (~Present(f, "HWY") \/ SameHWY(f) = {})
                     /\ (~Present(f, "four_D_plus_miles") /\ r.matched = 0) => r.value = Null
           /\ displayText
                 = TextMiles(Total([i \in 1..Len(selectedFeatures) |->
                                       Value4D(selectedFeatures[i])])) \o " mi"

\* The layer feature with the selected feature's HWY holds no value, and
\* another one, with its Total_Miles, holds one: the empty value is used.
C14_Witness ==
    /\ CaseA /\ script = "four_D_plus_miles" /\ ~raised
    /\ Len(selectedFeatures) = 1 /\ Len(layer) = 2
    /\ ~Present(selectedFeatures[1], "four_D_plus_miles")
    /\ SameHWY(selectedFeatures[1]) = {2}
    /\ ~Present(layer[2], "four_D_plus_miles")
    /\ Present(selectedFeatures[1], "Total_Miles")
    /\ Matching(Miles(selectedFeatures[1])) = {1}
    /\ layer[1]["four_D_plus_miles"] = <<50>>
    /\ locals.resolved[1].strategy = "HWY"
    /\ displayText = "0.0 mi"

\* --------------------------------------------------------------------- C15

\* The layer feature the truck script's fallback stops at for the first
\* selected feature, 0 when it does not run or matches nothing.
TruckSource ==
    LET f == selectedFeatures[1]
    IN  IF (~Present(f, "Truck_AADT") \/ ~Present(f, "Tons"))
           /\ Present(f, "Total_Miles") /\ Matching(Miles(f)) # {}
        THEN Least(Matching(Miles(f)))
        ELSE 0

\* Field k of the one feature the three figures come from.
TruckFigure(k) ==
    LET src == IF TruckSource > 0 THEN layer[TruckSource] ELSE selectedFeatures[1]
    IN  IF Present(src, k) THEN src[k] ELSE Null

\* C15: in the truck script with a selection, Truck_AADT, AADT and Tons all
\* come from the first selected feature when the fallback does not run or
\* matches nothing, and all from the matched layer feature when it matches one;
\* the display is made of these three, and it is "0 / 0% / 0" exactly when the
\* resolved Truck_AADT is empty.
C15_OneFeature ==
    (CaseA /\ script = "Truck_AADT")
        => /\ ~raised
           /\ locals.matched = TruckSource
           /\ locals.value = TruckFigure("Truck_AADT")
           /\ locals.valTotalAADT = TruckFigure("AADT")
           /\ locals.valTons = TruckFigure("Tons")
           /\ displayText = "0 / 0% / 0" <=> TruckFigure("Truck_AADT") = Null
           /\ TruckFigure("Truck_AADT") # Null =>
                 LET truck == TruckFigure("Truck_AADT")[1]
                     total == Number(TruckFigure("AADT"))
                     tons == Number(TruckFigure("Tons"))
                 IN  displayText
                        = TextGrouped(truck) \o " / "
                             \o (IF total > 0 THEN ToString(RoundDiv(100 * truck, total)) \o "%"
                                 ELSE "0%")
                             \o " / " \o FormatCompact(<<tons, 1>>) \o " Tons"

\* The selected feature holds a Truck_AADT and an AADT but no Tons; a layer
\* feature of its length holds all three, and all three displayed are its.
C15_Witness ==
    /\ CaseA /\ script = "Truck_AADT" /\ ~raised
    /\ Present(selectedFeatures[1], "Truck_AADT")
    /\ Present(selectedFeatures[1], "AADT")
    /\ ~Present(selectedFeatures[1], "Tons")
    /\ TruckSource > 0
    /\ layer[TruckSource]["Truck_AADT"] = <<6>>
    /\ layer[TruckSource]["AADT"] = <<12>>
    /\ layer[TruckSource]["Tons"] = <<2500>>
    /\ displayText = "6 / 50% / 2.5K Tons"
====
